---- MODULE Spec2Model ----
(***************************************************************************)
(* Model of pubtalk / gemini-audio: the pactl client (internal/pactl), the  *)
(* profile manager (internal/profiles/manager.go) and the setup / reset    *)
(* commands of main.go, run against a PulseAudio-compatible sound server.  *)
(*                                                                         *)
(* Text is modelled as text: the server answers with the lines pactl       *)
(* prints, and the client parses them with the string operations the Go    *)
(* code uses (Split, HasPrefix, Contains, TrimSpace, Atoi).  An output is  *)
(* the sequence of its lines, which is how bufio.Scanner hands it over.    *)
(***************************************************************************)
EXTENDS Integers, Sequences, FiniteSets, TLC

VARIABLES
    server,   \* the sound server: sinks, modules, streams, id counters
    dryRun,   \* Client.DryRun
    exec,     \* Client.Exec: the RealExecutor, or a test's fakeExec with its
              \* canned out and err
    faults,   \* how many commands the Executor has failed so far
    call,     \* the last client operation called directly, and what it returned
    run,      \* the running Deploy / Reset / setup / reset invocation
    ops,      \* how many invocations have been started
    hist      \* what the previous invocation was and left behind

vars == <<server, dryRun, exec, faults, call, run, ops, hist>>

-----------------------------------------------------------------------------
(* Bounds of the model *)

\* Commands the Executor may fail in one behaviour.
MaxFaults == 1
\* Invocations of Deploy / Reset / setup / reset in one behaviour.
MaxOps == 2
\* Sinks and modules of a server state the client operations are called on.
MaxListed == 2
\* The id the server gives the first module loaded (ids then count up).
FirstModuleId == 9

-----------------------------------------------------------------------------
(* Go's strings and strconv, as far as the code uses them *)

SetMin(S) == CHOOSE x \in S : \A y \in S : x <= y
SetMax(S) == CHOOSE x \in S : \A y \in S : x >= y

\* strings.HasPrefix
HasPrefix(s, p) == Len(s) >= Len(p) /\ SubSeq(s, 1, Len(p)) = p

\* strings.TrimPrefix
TrimPrefix(s, p) == IF HasPrefix(s, p) THEN SubSeq(s, Len(p) + 1, Len(s)) ELSE s

\* strings.Contains
Contains(s, sub) ==
    \E i \in 1..(Len(s) - Len(sub) + 1) : SubSeq(s, i, i + Len(sub) - 1) = sub

IsSpace(c) == c \in {" ", "\t", "\n", "\r"}

\* strings.TrimSpace
TrimSpace(s) ==
    LET keep == {i \in 1..Len(s) : ~IsSpace(SubSeq(s, i, i))}
    IN  IF keep = {} THEN "" ELSE SubSeq(s, SetMin(keep), SetMax(keep))

\* strings.Split(s, sep) for a one-character separator
RECURSIVE Split(_, _)
Split(s, sep) ==
    LET cut == {i \in 1..Len(s) : SubSeq(s, i, i) = sep}
    IN  IF cut = {} THEN <<s>>
        ELSE <<SubSeq(s, 1, SetMin(cut) - 1)>>
                 \o Split(SubSeq(s, SetMin(cut) + 1, Len(s)), sep)

\* strings.Join
RECURSIVE Join(_, _)
Join(parts, sep) ==
    IF parts = <<>> THEN ""
    ELSE IF Len(parts) = 1 THEN parts[1]
    ELSE parts[1] \o sep \o Join(Tail(parts), sep)

Digits == <<"0", "1", "2", "3", "4", "5", "6", "7", "8", "9">>

IsDigit(c) == \E d \in 1..10 : Digits[d] = c

DigitVal(c) == (CHOOSE d \in 1..10 : Digits[d] = c) - 1

\* strconv.Itoa
RECURSIVE Itoa(_)
Itoa(n) ==
    IF n < 0 THEN "-" \o Itoa(0 - n)
    ELSE IF n < 10 THEN Digits[n + 1]
    ELSE Itoa(n \div 10) \o Digits[(n % 10) + 1]

RECURSIVE DigitsVal(_)
DigitsVal(s) ==
    IF s = "" THEN 0
    ELSE 10 * DigitsVal(SubSeq(s, 1, Len(s) - 1)) + DigitVal(SubSeq(s, Len(s), Len(s)))

\* strconv.Atoi: an optional sign, then one or more decimal digits
Atoi(s) ==
    LET signed == Len(s) > 0 /\ SubSeq(s, 1, 1) \in {"+", "-"}
        body   == IF signed THEN SubSeq(s, 2, Len(s)) ELSE s
    IN  IF body = "" \/ \E i \in 1..Len(body) : ~IsDigit(SubSeq(body, i, i))
        THEN [ok |-> FALSE, val |-> 0]
        ELSE [ok |-> TRUE,
              val |-> IF signed /\ SubSeq(s, 1, 1) = "-"
                      THEN 0 - DigitsVal(body) ELSE DigitsVal(body)]

\* The concatenation of a sequence of sequences.
RECURSIVE Flatten(_)
Flatten(ss) == IF ss = <<>> THEN <<>> ELSE Head(ss) \o Flatten(Tail(ss))

\* strings.SplitN(s, sep, 2): cut at the first separator only
SplitN2(s, sep) ==
    LET cut == {i \in 1..Len(s) : SubSeq(s, i, i) = sep}
    IN  IF cut = {} THEN <<s>>
        ELSE <<SubSeq(s, 1, SetMin(cut) - 1), SubSeq(s, SetMin(cut) + 1, Len(s))>>

\* strings.Trim(s, c) for a one-character cutset
TrimChar(s, c) ==
    LET keep == {i \in 1..Len(s) : SubSeq(s, i, i) # c}
    IN  IF keep = {} THEN "" ELSE SubSeq(s, SetMin(keep), SetMax(keep))

-----------------------------------------------------------------------------
(* The sound server, as pactl shows it (spec section 6).  It is not code   *)
(* of the repository: it is the other end of the command protocol.  A sink *)
(* is [idx, name, mon, owner]: owner is the id of the module that made it  *)
(* (0: none, a hardware sink), mon its monitor source ("" if it shows      *)
(* none).  A module is [id, name, argv]; a stream is [id, app, sink].      *)

HardwareSink == [idx |-> 0, name |-> "hw", mon |-> "hw.monitor", owner |-> 0]

\* The value of key=value among a module's arguments ("" when absent).
ArgValue(argv, key) ==
    LET hits == {i \in 1..Len(argv) : HasPrefix(argv[i], key \o "=")}
    IN  IF hits = {} THEN "" ELSE TrimPrefix(argv[SetMin(hits)], key \o "=")

\* pactl list short sinks: index, name, driver, state, tab-separated
ShortSinkLine(s) == Itoa(s.idx) \o "\t" \o s.name \o "\tPipeWire\tIDLE"

\* pactl list sinks: one block per sink
SinkBlock(s) ==
    <<"Sink #" \o Itoa(s.idx), "\tState: IDLE", "\tName: " \o s.name>>
        \o (IF s.mon = "" THEN <<>> ELSE <<"\tMonitor Source: " \o s.mon>>)
        \o <<"\tMute: no">>

\* pactl list short modules: id, name, argument string, tab-separated
ShortModuleLine(m) == Itoa(m.id) \o "\t" \o m.name \o "\t" \o Join(m.argv, " ") \o "\t"

\* pactl list sink-inputs: one block per playback stream
SinkInputBlock(i) ==
    <<"Sink Input #" \o Itoa(i.id), "\tDriver: PipeWire", "\tProperties:">>
        \o (IF i.app = "" THEN <<>>
            ELSE <<"\t\tapplication.name = \"" \o i.app \o "\"">>)

\* load-module: the module is recorded with its arguments as given; a
\* module-null-sink also makes a sink named by sink_name, with a monitor.
\* PipeWire accepts a second sink of the same name (main.go:194).
ServerLoadModule(srv, name, argv) ==
    LET id == srv.nextId
        sn == ArgValue(argv, "sink_name")
    IN  [srv EXCEPT
            !.modules = Append(@, [id |-> id, name |-> name, argv |-> argv]),
            !.sinks = IF name = "module-null-sink" /\ sn # ""
                      THEN Append(@, [idx |-> id, name |-> sn,
                                      mon |-> sn \o ".monitor", owner |-> id])
                      ELSE @,
            !.nextId = id + 1]

\* unload-module: the module goes, and the sink it made with it; streams
\* playing into that sink fall back to the hardware sink.
ServerUnloadModule(srv, id) ==
    LET gone == {srv.sinks[k].name : k \in {j \in 1..Len(srv.sinks) : srv.sinks[j].owner = id}}
        KeepM(m) == m.id # id
        KeepS(s) == s.owner # id
        left == SelectSeq(srv.sinks, KeepS)
        still == {left[k].name : k \in 1..Len(left)}
    IN  [srv EXCEPT
            !.modules = SelectSeq(@, KeepM),
            !.sinks = left,
            !.streams = [k \in 1..Len(@) |->
                            IF @[k].sink \in gone \ still
                            THEN [@[k] EXCEPT !.sink = HardwareSink.name] ELSE @[k]]]

\* move-sink-input
ServerMoveSinkInput(srv, id, sinkName) ==
    [srv EXCEPT !.streams = [k \in 1..Len(@) |->
                    IF @[k].id = id THEN [@[k] EXCEPT !.sink = sinkName] ELSE @[k]]]

HasModule(srv, id) == \E k \in 1..Len(srv.modules) : srv.modules[k].id = id
HasSink(srv, name) == \E k \in 1..Len(srv.sinks) : srv.sinks[k].name = name
HasStream(srv, id) == \E k \in 1..Len(srv.streams) : srv.streams[k].id = id

\* One pactl command run against the server: [ok, out, srv].
ServerRun(srv, args) ==
    LET Fail(msg) == [ok |-> FALSE, out |-> <<msg>>, srv |-> srv]
        Ok(out, nxt) == [ok |-> TRUE, out |-> out, srv |-> nxt]
    IN  IF args = <<"list", "short", "sinks">>
            THEN Ok([k \in 1..Len(srv.sinks) |-> ShortSinkLine(srv.sinks[k])], srv)
        ELSE IF args = <<"list", "sinks">>
            THEN Ok(Flatten([k \in 1..Len(srv.sinks) |-> SinkBlock(srv.sinks[k])]), srv)
        ELSE IF args = <<"list", "short", "modules">>
            THEN Ok([k \in 1..Len(srv.modules) |-> ShortModuleLine(srv.modules[k])], srv)
        ELSE IF args = <<"list", "sink-inputs">>
            THEN Ok(Flatten([k \in 1..Len(srv.streams) |-> SinkInputBlock(srv.streams[k])]), srv)
        ELSE IF Len(args) >= 2 /\ args[1] = "load-module"
            THEN Ok(<<Itoa(srv.nextId)>>,
                    ServerLoadModule(srv, args[2], SubSeq(args, 3, Len(args))))
        ELSE IF Len(args) = 2 /\ args[1] = "unload-module"
            THEN IF Atoi(args[2]).ok /\ HasModule(srv, Atoi(args[2]).val)
                 THEN Ok(<<>>, ServerUnloadModule(srv, Atoi(args[2]).val))
                 ELSE Fail("Failure: No such entity")
        ELSE IF Len(args) = 3 /\ args[1] = "move-sink-input"
            THEN IF Atoi(args[2]).ok /\ HasStream(srv, Atoi(args[2]).val)
                    /\ HasSink(srv, args[3])
                 THEN Ok(<<>>, ServerMoveSinkInput(srv, Atoi(args[2]).val, args[3]))
                 ELSE Fail("Failure: No such entity")
        ELSE Fail("No valid command specified.")


-----------------------------------------------------------------------------
(* internal/pactl: the client.  An error is "" (nil), "ExecutionFailure"   *)
(* (the command failed) or "NotFound" (a lookup matched nothing).  Every   *)
(* operation returns, beside its Go results, cmd: the command it issued,   *)
(* as [args, out, err, mode, srv, argv], where mode says how the command  *)
(* was carried out: "echo" (dry-run, nothing runs), "exec" (c.Exec.Run) or *)
(* "direct" (os/exec called by the operation itself), srv is the server    *)
(* after it and argv what the Executor was called with (<<>> if it was     *)
(* not).                                                                   *)

\* RealExecutor.Run: the process is started and its combined output read.
\* fault: the command cannot be launched or the server refuses it.
RealExecutorRun(srv, fault, name, args) ==
    IF fault \/ name # "pactl"
    THEN [ok |-> FALSE, out |-> <<"Connection failure: Connection refused">>, srv |-> srv]
    ELSE ServerRun(srv, args)

\* New(dry) gives the client the RealExecutor.
RealExec == [kind |-> "real", out |-> <<>>, ok |-> TRUE]

\* fakeExec.Run: whatever the command, the canned out and err come back.
FakeExecRun(ex, srv) == [ok |-> ex.ok, out |-> ex.out, srv |-> srv]

\* c.Exec.Run(name, args...): the call goes to the executor the client holds.
ExecRun(ex, srv, fault, name, args) ==
    IF ex.kind = "real" THEN RealExecutorRun(srv, fault, name, args)
    ELSE FakeExecRun(ex, srv)

\* The command line Pactl hands to its executor.
\* The arguments run together, nothing between them.
DryRunEchoUnspaced(args) == "dry-run: pactl " \o Join(args, "")

\* The text a dry-run call gives back (profiles.go:114)
DryRunEcho(args) == "dry-run: pactl " \o Join(args, " ")

\* The arguments handed over as one word.
PactlCommandJoined(args) == <<"pactl", Join(args, " ")>>

PactlCommand(args) == <<"pactl">> \o args

\* Client.Pactl.  argv is the command line the executor was called with
\* (<<>> when it was not called).
Pactl(dry, srv, fault, args) ==
    IF dry
    THEN [args |-> args, out |-> <<DryRunEcho(args)>>,
          err |-> "", mode |-> "echo", srv |-> srv, argv |-> <<>>]
    ELSE LET argv == PactlCommand(args)
             r == ExecRun(exec, srv, fault, Head(argv), Tail(argv))
         IN  [args |-> args, out |-> r.out,
              err |-> IF r.ok THEN "" ELSE "ExecutionFailure",
              mode |-> "exec", srv |-> r.srv, argv |-> argv]

NamePartsSplit(line) == Split(line, "=")

\* ListSinkInputs, the cut of an application.name line at its first "=".
NameParts(line) == SplitN2(line, "=")

\* ListSinkInputs, the block scan: inputs are the records closed so far,
\* cur the record being filled (<<>> while there is none).
RECURSIVE ScanSinkInputs(_, _, _, _)
ScanSinkInputs(lines, k, inputs, cur) ==
    IF k > Len(lines) THEN inputs \o cur
    ELSE LET line == TrimSpace(lines[k])
         IN  IF HasPrefix(line, "Sink Input #")
             THEN ScanSinkInputs(lines, k + 1, inputs \o cur,
                      <<[ID |-> Atoi(TrimPrefix(line, "Sink Input #")).val,
                         ApplicationName |-> ""]>>)
             ELSE IF cur # <<>> /\ HasPrefix(line, "application.name =")
             THEN LET parts == NameParts(line)
                  IN  ScanSinkInputs(lines, k + 1, inputs,
                          IF Len(parts) = 2
                          THEN <<[cur[1] EXCEPT !.ApplicationName =
                                     TrimChar(TrimSpace(parts[2]), "\"")]>>
                          ELSE cur)
             ELSE ScanSinkInputs(lines, k + 1, inputs, cur)

\* Client.ListSinkInputs: runs pactl itself, whatever DryRun and Exec are.
ListSinkInputs(dry, srv, fault) ==
    LET r == RealExecutorRun(srv, fault, "pactl", <<"list", "sink-inputs">>)
        cmd == [args |-> <<"list", "sink-inputs">>, out |-> r.out,
                err |-> IF r.ok THEN "" ELSE "ExecutionFailure",
                mode |-> "direct", srv |-> r.srv, argv |-> <<>>]
    IN  IF ~r.ok THEN [cmd |-> cmd, err |-> "ExecutionFailure", inputs |-> <<>>]
        ELSE [cmd |-> cmd, err |-> "", inputs |-> ScanSinkInputs(r.out, 1, <<>>, <<>>)]

\* Client.MoveSinkInput
MoveSinkInput(dry, srv, fault, sinkInputID, sinkName) ==
    LET r == Pactl(dry, srv, fault, <<"move-sink-input", Itoa(sinkInputID), sinkName>>)
    IN  [cmd |-> r, err |-> r.err]

\* GetSinkMonitor, the line scan with its inTargetSink flag.
RECURSIVE ScanSinkMonitor(_, _, _, _)
ScanSinkMonitor(lines, k, inTargetSink, sinkName) ==
    IF k > Len(lines) THEN [err |-> "NotFound", mon |-> ""]
    ELSE LET line == TrimSpace(lines[k])
         IN  IF HasPrefix(line, "Sink #")
                 THEN ScanSinkMonitor(lines, k + 1, FALSE, sinkName)
             ELSE IF HasPrefix(line, "Name: " \o sinkName)
                 THEN ScanSinkMonitor(lines, k + 1, TRUE, sinkName)
             ELSE IF inTargetSink /\ HasPrefix(line, "Monitor Source: ")
                 THEN [err |-> "", mon |-> TrimPrefix(line, "Monitor Source: ")]
             ELSE ScanSinkMonitor(lines, k + 1, inTargetSink, sinkName)

\* Client.GetSinkMonitor
GetSinkMonitor(dry, srv, fault, sinkName) ==
    LET r == Pactl(dry, srv, fault, <<"list", "sinks">>)
    IN  IF r.err # "" THEN [cmd |-> r, err |-> "ExecutionFailure", mon |-> ""]
        ELSE [cmd |-> r] @@ ScanSinkMonitor(r.out, 1, FALSE, sinkName)

\* FindModules, the scan of the listing: the ids of the rows whose argument
\* column contains argumentSubstr, in listing order.
RECURSIVE ScanModules(_, _, _)
ScanModules(lines, k, argumentSubstr) ==
    IF k > Len(lines) THEN <<>>
    ELSE LET parts == Split(lines[k], "\t")
         IN  (IF Len(parts) >= 3 /\ Contains(parts[3], argumentSubstr)
                 /\ Atoi(parts[1]).ok
              THEN <<Atoi(parts[1]).val>> ELSE <<>>)
             \o ScanModules(lines, k + 1, argumentSubstr)

\* Client.FindModules
FindModules(dry, srv, fault, argumentSubstr) ==
    LET r == Pactl(dry, srv, fault, <<"list", "short", "modules">>)
        ids == ScanModules(r.out, 1, argumentSubstr)
    IN  IF r.err # "" THEN [cmd |-> r, err |-> "ExecutionFailure", ids |-> <<>>]
        ELSE IF Len(ids) = 0 THEN [cmd |-> r, err |-> "NotFound", ids |-> <<>>]
        ELSE [cmd |-> r, err |-> "", ids |-> ids]

MatchesJoined(args, substrs) == args = Join(substrs, " ")

MatchesAny(args, substrs) == \E i \in 1..Len(substrs) : Contains(args, substrs[i])

\* FindModulesMatching, the matchesAll loop over substrs.
MatchesAll(args, substrs) == \A i \in 1..Len(substrs) : Contains(args, substrs[i])

\* FindModulesMatching, the scan of the listing.
RECURSIVE ScanModulesMatching(_, _, _)
ScanModulesMatching(lines, k, substrs) ==
    IF k > Len(lines) THEN <<>>
    ELSE LET parts == Split(lines[k], "\t")
         IN  (IF Len(parts) >= 3 /\ MatchesAll(parts[3], substrs)
                 /\ Atoi(parts[1]).ok
              THEN <<Atoi(parts[1]).val>> ELSE <<>>)
             \o ScanModulesMatching(lines, k + 1, substrs)

\* Client.FindModulesMatching
FindModulesMatching(dry, srv, fault, substrs) ==
    LET r == Pactl(dry, srv, fault, <<"list", "short", "modules">>)
        ids == ScanModulesMatching(r.out, 1, substrs)
    IN  IF r.err # "" THEN [cmd |-> r, err |-> "ExecutionFailure", ids |-> <<>>]
        ELSE IF Len(ids) = 0 THEN [cmd |-> r, err |-> "NotFound", ids |-> <<>>]
        ELSE [cmd |-> r, err |-> "", ids |-> ids]

\* Client.UnloadModule
UnloadModule(dry, srv, fault, moduleID) ==
    LET r == Pactl(dry, srv, fault, <<"unload-module", Itoa(moduleID)>>)
    IN  [cmd |-> r, err |-> r.err]

SinkRowHasPrefix(parts, sinkName) == Len(parts) >= 2 /\ HasPrefix(parts[2], sinkName)

\* SinkExists, the test of one row of the listing.
SinkRowMatches(parts, sinkName) == Len(parts) >= 2 /\ parts[2] = sinkName

\* Client.SinkExists
SinkExists(dry, srv, fault, sinkName) ==
    LET r == Pactl(dry, srv, fault, <<"list", "short", "sinks">>)
    IN  IF r.err # "" THEN [cmd |-> r, err |-> "ExecutionFailure", exists |-> FALSE]
        ELSE [cmd |-> r, err |-> "",
              exists |-> \E k \in 1..Len(r.out) :
                             SinkRowMatches(Split(r.out[k], "\t"), sinkName)]

-----------------------------------------------------------------------------
\* What call keeps of an issued command: the server it left is in server.
CmdOf(c) ==
    [args |-> c.args, out |-> c.out, err |-> c.err, mode |-> c.mode, argv |-> c.argv]

Results(r) == [x \in DOMAIN r \ {"cmd"} |-> r[x]]

NoCall == [op |-> "none", args |-> <<>>, fault |-> FALSE,
           cmd |-> [args |-> <<>>, out |-> <<>>, err |-> "", mode |-> "none",
                    argv |-> <<>>],
           res |-> [err |-> ""]]

\* May the next command fail?  Only a command that is really run can.
Faults(runs) == IF runs /\ faults < MaxFaults THEN BOOLEAN ELSE {FALSE}

-----------------------------------------------------------------------------
(* Profiles, and the record of a running invocation.                       *)
(*   op     "Deploy" / "Reset" (Manager, manager.go), "Setup" / "MainReset"*)
(*          (the setup and reset commands of main.go)                      *)
(*   pc     the step it is at; "done" when it has returned                 *)
(*   mon    monitorSource; ids: module ids still to unload; app: index of  *)
(*          the application being routed; inputs: streams still to move    *)
(*   cmds   the commands issued so far: [args, err, mode, step, mod],      *)
(*          step being the step that issued the command and mod the        *)
(*          module an unload-module named (<<>> if none)                   *)
(*   errs   the errors the steps got: [step, err, how], how being          *)
(*          "returned" (to the caller), "printed" (a message that carries  *)
(*          the error), "masked" (a message without it) or "dropped"       *)
(*   ret    the error returned ("" for nil)                                *)

Profiles ==
    { [Name |-> "p1", VirtualSink |-> "v",
       Applications |-> << [Name |-> "firefox", Role |-> "playback"],
                           [Name |-> "chrome", Role |-> "input_target"] >>],
      [Name |-> "p2", VirtualSink |-> "v2",
       Applications |-> << [Name |-> "zoom", Role |-> "input_target"] >>] }

DeployKinds == {"Deploy", "Setup"}
ResetKinds == {"Reset", "MainReset"}

NoRun == [op |-> "idle", prof |-> CHOOSE q \in Profiles : q.Name = "p1", pc |-> "idle",
          mon |-> "", ids |-> <<>>, app |-> 0, inputs |-> <<>>, found |-> FALSE,
          cmds |-> <<>>, errs |-> <<>>, ret |-> ""]

NewRun(kind, prof) ==
    [NoRun EXCEPT !.op = kind, !.prof = prof,
                  !.pc = IF kind \in DeployKinds THEN "base_check" ELSE "r_monitor"]

MicSinkName(prof) == prof.VirtualSink \o "-mic"

MicDescription(prof) == "Virtual Mic (" \o prof.Name \o ")"

UpperCase == "ABCDEFGHIJKLMNOPQRSTUVWXYZ"
LowerCase == "abcdefghijklmnopqrstuvwxyz"

\* strings.ToLower
RECURSIVE ToLower(_)
ToLower(s) ==
    IF s = "" THEN ""
    ELSE LET c == SubSeq(s, 1, 1)
             up == {i \in 1..Len(UpperCase) : SubSeq(UpperCase, i, i) = c}
         IN  (IF up = {} THEN c ELSE SubSeq(LowerCase, SetMin(up), SetMin(up)))
             \o ToLower(SubSeq(s, 2, Len(s)))

\* A match that tells upper case from lower case.
AppMatchesCase(input, appName) == Contains(input.ApplicationName, appName)

\* The streams an application declaration selects (manager.go:96, main.go:152).
AppMatches(input, appName) == Contains(ToLower(input.ApplicationName), ToLower(appName))

Executed(c) == c.mode # "echo"

IsLoad(c) == Len(c.args) >= 2 /\ c.args[1] = "load-module"
IsUnload(c) == Len(c.args) = 2 /\ c.args[1] = "unload-module"

-----------------------------------------------------------------------------
(* What hist keeps of the invocation that returned last, and of the one    *)
(* before it.                                                              *)

NoHist == [op |-> "none", prof |-> "", after |-> <<>>, clean |-> TRUE, loads |-> 0,
           unloadsOk |-> TRUE, mon |-> "",
           prevOp |-> "none", prevProf |-> "", prevAfter |-> <<>>, prevClean |-> TRUE,
           prevLoads |-> 0, prevMon |-> ""]

Finished(me, srv) ==
    LET Failed(c) == c.err = "ExecutionFailure"
        Loaded(c) == IsLoad(c) /\ Executed(c) /\ c.err = ""
        BadUnload(c) == IsUnload(c) /\ c.err # ""
    IN  [op |-> me.op, prof |-> me.prof.VirtualSink, after |-> srv,
         clean |-> \A k \in 1..Len(me.cmds) : ~Failed(me.cmds[k]),
         loads |-> Cardinality({k \in 1..Len(me.cmds) : Loaded(me.cmds[k])}),
         unloadsOk |-> \A k \in 1..Len(me.cmds) : ~BadUnload(me.cmds[k]),
         mon |-> me.mon,
         prevOp |-> hist.op, prevProf |-> hist.prof, prevAfter |-> hist.after,
         prevClean |-> hist.clean, prevLoads |-> hist.loads, prevMon |-> hist.mon]

-----------------------------------------------------------------------------
(* The steps of an invocation: each issues one command.                    *)

Err(me, err, how) ==
    [me EXCEPT !.errs = Append(@, [step |-> me.pc, err |-> err, how |-> how])]

Return(me, err) == [me EXCEPT !.pc = "done", !.ret = err]

\* The module an id names on the server (<<>> when there is none).
ModuleOf(srv, id) ==
    LET Is(m) == m.id = id IN SelectSeq(srv.modules, Is)

\* The record of the invocation with the command put in its log.
Logged(nxt, cmd, srv, step) ==
    [nxt EXCEPT !.cmds = Append(@,
        [args |-> cmd.args, err |-> cmd.err, mode |-> cmd.mode, step |-> step,
         mod |-> IF IsUnload(cmd) /\ Atoi(cmd.args[2]).ok
                 THEN ModuleOf(srv, Atoi(cmd.args[2]).val) ELSE <<>>])]

\* The step is taken: the command is logged and has had its effect.
Advance(p, f, cmd, nxt) ==
    \E me \in {Logged(nxt, cmd, server, run[p].pc)} :
        /\ server' = cmd.srv
        /\ faults' = IF f THEN faults + 1 ELSE faults
        /\ run' = [run EXCEPT ![p] = me]
        /\ hist' = IF me.pc = "done" THEN Finished(me, cmd.srv) ELSE hist
        /\ UNCHANGED <<dryRun, exec, call, ops>>

\* A step that issues no command.
Silent(p, me) ==
    /\ run' = [run EXCEPT ![p] = me]
    /\ hist' = IF me.pc = "done" THEN Finished(me, server) ELSE hist
    /\ UNCHANGED <<server, dryRun, exec, faults, call, ops>>

\* The loop over p.Applications moves on to application i, or is over.
ToApp(me, i) ==
    IF i > Len(me.prof.Applications)
    THEN [me EXCEPT !.pc = "done", !.app = i, !.inputs = <<>>]
    ELSE [me EXCEPT !.pc = "route", !.app = i, !.inputs = <<>>, !.found = FALSE]

\* A caller starts Deploy, Reset, setup or reset for a profile.
Start(p) ==
    /\ run[p].pc \in {"idle", "done"}
    /\ ops < MaxOps
    /\ \E kind \in DeployKinds \cup ResetKinds, prof \in Profiles :
          run' = [run EXCEPT ![p] = NewRun(kind, prof)]
    /\ ops' = ops + 1
    /\ UNCHANGED <<server, dryRun, exec, faults, call, hist>>

\* Step 1, the check: manager.go:32-36, main.go:86-90
BaseCheck(p) ==
    /\ run[p].pc = "base_check"
    /\ \E f \in Faults(~dryRun) :
        \E me \in {run[p]} :
        \E r \in {SinkExists(dryRun, server, f, me.prof.VirtualSink)} :
        LET nxt == IF r.err # "" /\ me.op = "Deploy"
                       THEN Return(Err(me, r.err, "returned"), r.err)
                   ELSE IF r.err # ""
                       THEN [Err(me, r.err, "printed") EXCEPT !.pc = "base_create"]
                   ELSE [me EXCEPT !.pc = IF r.exists THEN "mic_check"
                                          ELSE "base_create"]
        IN  Advance(p, f, r.cmd, nxt)

\* Step 1, the create: manager.go:37-41, main.go:91-96
BaseCreate(p) ==
    /\ run[p].pc = "base_create"
    /\ \E f \in Faults(~dryRun) :
        \E me \in {run[p]} :
        \E r \in {Pactl(dryRun, server, f,
                       <<"load-module", "module-null-sink",
                         "sink_name=" \o me.prof.VirtualSink>>)} :
        LET nxt == IF r.err # "" /\ me.op = "Deploy"
                       THEN Return(Err(me, r.err, "returned"), r.err)
                   ELSE IF r.err # ""
                       THEN [Err(me, r.err, "printed") EXCEPT !.pc = "mic_check"]
                   ELSE [me EXCEPT !.pc = "mic_check"]
        IN  Advance(p, f, r, nxt)

\* Step 2, the check: manager.go:51-54, main.go:104-107
MicCheck(p) ==
    /\ run[p].pc = "mic_check"
    /\ \E f \in Faults(~dryRun) :
        \E me \in {run[p]} :
        \E r \in {SinkExists(dryRun, server, f, MicSinkName(me.prof))} :
        LET nxt == IF r.err # "" /\ me.op = "Deploy"
                       THEN Return(Err(me, r.err, "returned"), r.err)
                   ELSE IF r.err # ""
                       THEN [Err(me, r.err, "printed") EXCEPT !.pc = "mic_create"]
                   ELSE [me EXCEPT !.pc = IF r.exists THEN "monitor"
                                          ELSE "mic_create"]
        IN  Advance(p, f, r.cmd, nxt)

\* The arguments the mic sink is created with: manager.go:58, main.go:109-110
MicCreateArgs(me) ==
    IF me.op = "Deploy"
    THEN <<"load-module", "module-null-sink", "sink_name=" \o MicSinkName(me.prof),
           "sink_properties=\"device.description='" \o MicDescription(me.prof)
               \o "' device.icon_name=audio-input-microphone\"">>
    ELSE <<"load-module", "module-null-sink", "sink_name=" \o MicSinkName(me.prof),
           "sink_properties=device.description=\"" \o MicDescription(me.prof)
               \o "\" device.class=\"audio\" media.class=\"Audio/Source/Virtual\""
               \o " device.icon_name=\"audio-input-microphone\"">>

\* Step 2, the create: manager.go:56-63, main.go:108-118
MicCreate(p) ==
    /\ run[p].pc = "mic_create"
    /\ \E f \in Faults(~dryRun) :
        \E me \in {run[p]} :
        \E r \in {Pactl(dryRun, server, f, MicCreateArgs(me))} :
        LET nxt == IF r.err # "" /\ me.op = "Deploy"
                       THEN Return(Err(me, r.err, "returned"), r.err)
                   ELSE IF r.err # ""
                       THEN [Err(me, r.err, "printed") EXCEPT !.pc = "monitor"]
                   ELSE [me EXCEPT !.pc = "monitor"]
        IN  Advance(p, f, r, nxt)

\* Step 3, the monitor lookup: manager.go:66-69, main.go:121-124
Monitor(p) ==
    /\ run[p].pc = "monitor"
    /\ \E f \in Faults(~dryRun) :
        \E me \in {run[p]} :
        \E r \in {GetSinkMonitor(dryRun, server, f, me.prof.VirtualSink)} :
        LET nxt == IF r.err # "" /\ me.op = "Deploy"
                       THEN Return(Err(me, r.err, "returned"), r.err)
                   ELSE IF r.err # ""
                       THEN ToApp(Err(me, r.err, "printed"), 1)
                   ELSE [me EXCEPT !.pc = "loop_find", !.mon = r.mon]
        IN  Advance(p, f, r.cmd, nxt)

\* The lookup of the loopback: manager.go:73-74 (both arguments),
\* main.go:125-126 (the source alone)
LoopLookup(me, srv, f) ==
    IF me.op \in {"Deploy", "Reset"}
    THEN FindModulesMatching(dryRun, srv, f,
             <<"source=" \o me.mon, "sink=" \o MicSinkName(me.prof)>>)
    ELSE FindModules(dryRun, srv, f, "source=" \o me.mon)

\* Step 3, the lookup: any error of it, a failed listing too, leads to the
\* create (manager.go:74, main.go:127)
LoopFind(p) ==
    /\ run[p].pc = "loop_find"
    /\ \E f \in Faults(~dryRun) :
        \E me \in {run[p]} :
        \E r \in {LoopLookup(me, server, f)} :
        LET nxt == IF r.err = "ExecutionFailure"
                       THEN [Err(me, r.err, "dropped") EXCEPT !.pc = "loop_create"]
                   ELSE IF r.err # "" THEN [me EXCEPT !.pc = "loop_create"]
                   ELSE ToApp(me, 1)
        IN  Advance(p, f, r.cmd, nxt)

\* The arguments the loopback is created with: manager.go:75, main.go:129
LoopCreateArgs(me) ==
    <<"load-module", "module-loopback", "source=" \o me.mon,
      "sink=" \o MicSinkName(me.prof)>>
        \o (IF me.op = "Deploy" THEN <<"latency_msec=1">> ELSE <<>>)

\* Step 3, the create: manager.go:75-79, main.go:129-134
LoopCreate(p) ==
    /\ run[p].pc = "loop_create"
    /\ \E f \in Faults(~dryRun) :
        \E me \in {run[p]} :
        \E r \in {Pactl(dryRun, server, f, LoopCreateArgs(me))} :
        LET nxt == IF r.err # "" /\ me.op = "Deploy"
                       THEN Return(Err(me, r.err, "returned"), r.err)
                   ELSE IF r.err # "" THEN ToApp(Err(me, r.err, "printed"), 1)
                   ELSE ToApp(me, 1)
        IN  Advance(p, f, r, nxt)

\* Step 4 for a playback application, the listing: manager.go:86-92,
\* main.go:142-148
RoutePlayback(p) ==
    /\ run[p].pc = "route"
    /\ run[p].prof.Applications[run[p].app].Role = "playback"
    /\ \E f \in Faults(TRUE) :
        \E me \in {run[p]} :
        \E app \in {me.prof.Applications[me.app]} :
        \E r \in {ListSinkInputs(dryRun, server, f)} :
        LET Sel(i) == AppMatches(i, app.Name) IN
        \E hits \in {SelectSeq(r.inputs, Sel)} :
        LET nxt == IF r.err # "" THEN ToApp(Err(me, r.err, "printed"), me.app + 1)
                   ELSE IF hits = <<>> THEN ToApp(me, me.app + 1)
                   ELSE [me EXCEPT !.pc = "move", !.inputs = hits]
        IN  Advance(p, f, r.cmd, nxt)

\* Step 4 for any other application, were it to look at the streams too.
RouteOtherListed(p) ==
    /\ run[p].pc = "route"
    /\ run[p].prof.Applications[run[p].app].Role # "playback"
    /\ \E f \in Faults(TRUE) :
        \E me \in {run[p]} :
        \E r \in {ListSinkInputs(dryRun, server, f)} :
            Advance(p, f, r.cmd, ToApp(me, me.app + 1))

\* Step 4 for any other application: messages only (manager.go:110-114,
\* main.go:166-171)
RouteOther(p) ==
    /\ run[p].pc = "route"
    /\ run[p].prof.Applications[run[p].app].Role # "playback"
    /\ Silent(p, ToApp(run[p], run[p].app + 1))

\* Step 4, one matching stream is moved: manager.go:95-105, main.go:151-161
Move(p) ==
    /\ run[p].pc = "move"
    /\ \E f \in Faults(~dryRun) :
        \E me \in {run[p]} :
        \E r \in {MoveSinkInput(dryRun, server, f, Head(me.inputs).ID,
                               me.prof.VirtualSink)} :
        \E got \in {IF r.err # "" THEN Err(me, r.err, "printed")
                   ELSE [me EXCEPT !.found = TRUE]} :
        LET nxt == IF Len(me.inputs) = 1 THEN ToApp(got, me.app + 1)
                   ELSE [got EXCEPT !.inputs = Tail(@)]
        IN  Advance(p, f, r.cmd, nxt)

\* Reset step 1, the monitor lookup: manager.go:126 (the error is not
\* looked at), main.go:196-199 (an error skips the loopback step)
ResetMonitor(p) ==
    /\ run[p].pc = "r_monitor"
    /\ \E f \in Faults(~dryRun) :
        \E me \in {run[p]} :
        \E r \in {GetSinkMonitor(dryRun, server, f, me.prof.VirtualSink)} :
        LET nxt == IF r.err # "" /\ me.op = "Reset"
                       THEN [Err(me, r.err, "dropped") EXCEPT !.pc = "r_loop_find",
                                                              !.mon = r.mon]
                   ELSE IF r.err # ""
                       THEN [Err(me, r.err, "printed") EXCEPT !.pc = "r_mic_find"]
                   ELSE [me EXCEPT !.pc = "r_loop_find", !.mon = r.mon]
        IN  Advance(p, f, r.cmd, nxt)

\* How Reset reports the error of a lookup: Manager.Reset prints a fixed
\* message (manager.go:130, 146, 161), main prints the error (main.go:203,
\* 219, 234).
LookupError(me, err) ==
    IF me.op = "MainReset" THEN Err(me, err, "printed")
    ELSE IF err = "NotFound" THEN Err(me, err, "printed")
    ELSE Err(me, err, "masked")

\* Reset step 1, the lookup: manager.go:127-132, main.go:200-205
ResetLoopFind(p) ==
    /\ run[p].pc = "r_loop_find"
    /\ \E f \in Faults(~dryRun) :
        \E me \in {run[p]} :
        \E r \in {LoopLookup(me, server, f)} :
        LET nxt == IF r.err # "" THEN [LookupError(me, r.err) EXCEPT !.pc = "r_mic_find"]
                   ELSE [me EXCEPT !.pc = "r_loop_unload", !.ids = r.ids]
        IN  Advance(p, f, r.cmd, nxt)

\* The pattern of the mic sink's module: manager.go:143, main.go:217
ResetMicPattern(prof) == "sink_name=" \o MicSinkName(prof)

\* Reset step 2, the lookup: manager.go:143-148, main.go:217-221
ResetMicFind(p) ==
    /\ run[p].pc = "r_mic_find"
    /\ \E f \in Faults(~dryRun) :
        \E me \in {run[p]} :
        \E r \in {FindModules(dryRun, server, f, ResetMicPattern(me.prof))} :
        LET nxt == IF r.err # "" THEN [LookupError(me, r.err) EXCEPT !.pc = "r_base_find"]
                   ELSE [me EXCEPT !.pc = "r_mic_unload", !.ids = r.ids]
        IN  Advance(p, f, r.cmd, nxt)

ResetWrongPattern(prof) == "sink=" \o prof.VirtualSink

\* The pattern of the base sink's module: manager.go:159, main.go:232
ResetBasePattern(prof) == "sink_name=" \o prof.VirtualSink

\* Reset step 3, the lookup: manager.go:159-163, main.go:232-236
ResetBaseFind(p) ==
    /\ run[p].pc = "r_base_find"
    /\ \E f \in Faults(~dryRun) :
        \E me \in {run[p]} :
        \E r \in {FindModules(dryRun, server, f, ResetBasePattern(me.prof))} :
        LET nxt == IF r.err # "" THEN Return(LookupError(me, r.err), "")
                   ELSE [me EXCEPT !.pc = "r_base_unload", !.ids = r.ids]
        IN  Advance(p, f, r.cmd, nxt)

\* Reset returns once it has unloaded the modules of one step.
AfterUnloadsReturn(pc) == "done"

\* Teardown in the order of setup: the base sink before the mic sink.
AfterUnloadsBaseFirst(pc) ==
    IF pc = "r_loop_unload" THEN "r_base_find"
    ELSE IF pc = "r_base_unload" THEN "r_mic_find"
    ELSE "done"

\* Where Reset goes once the ids of a step are all done with.
AfterUnloads(pc) ==
    IF pc = "r_loop_unload" THEN "r_mic_find"
    ELSE IF pc = "r_mic_unload" THEN "r_base_find"
    ELSE "done"

\* One module of a Reset step is unloaded, and a failure ends the Reset.
ResetUnloadOrReturn(p) ==
    /\ run[p].pc \in {"r_loop_unload", "r_mic_unload", "r_base_unload"}
    /\ \E f \in Faults(~dryRun) :
        \E me \in {run[p]} :
        \E r \in {UnloadModule(dryRun, server, f, Head(me.ids))} :
        LET nxt == IF r.err # "" THEN Return(Err(me, r.err, "returned"), r.err)
                   ELSE IF Len(me.ids) = 1
                   THEN [me EXCEPT !.pc = AfterUnloads(me.pc), !.ids = <<>>]
                   ELSE [me EXCEPT !.ids = Tail(@)]
        IN  Advance(p, f, r.cmd, nxt)

\* One module of a Reset step is unloaded: manager.go:133-139, 149-155,
\* 164-170, main.go:206-212, 222-228, 237-243
ResetUnload(p) ==
    /\ run[p].pc \in {"r_loop_unload", "r_mic_unload", "r_base_unload"}
    /\ \E f \in Faults(~dryRun) :
        \E me \in {run[p]} :
        \E r \in {UnloadModule(dryRun, server, f, Head(me.ids))} :
        \E got \in {IF r.err # "" THEN Err(me, r.err, "printed") ELSE me} :
        LET nxt == IF Len(me.ids) = 1
                   THEN [got EXCEPT !.pc = AfterUnloads(me.pc), !.ids = <<>>]
                   ELSE [got EXCEPT !.ids = Tail(@)]
        IN  Advance(p, f, r.cmd, nxt)

InitialServer ==
    [sinks |-> <<HardwareSink>>, modules |-> <<>>,
     streams |-> << [id |-> 5, app |-> "Firefox", sink |-> HardwareSink.name],
                    [id |-> 6, app |-> "mpv", sink |-> HardwareSink.name],
                    [id |-> 7, app |-> "MyFIREFOX", sink |-> HardwareSink.name] >>,
     nextId |-> FirstModuleId]

\* The server when the browser is not running.
QuietServer ==
    [InitialServer EXCEPT
        !.streams = << [id |-> 6, app |-> "mpv", sink |-> HardwareSink.name] >>]

\* The servers an invocation may find: nothing loaded yet; or another
\* profile's two sinks and loopback, a loopback someone loaded by hand, and
\* no browser running.
InitialServers ==
    { InitialServer,
      ServerLoadModule(
        ServerLoadModule(
          ServerLoadModule(
            ServerLoadModule(QuietServer, "module-null-sink", <<"sink_name=v2">>),
            "module-null-sink", <<"sink_name=v2-mic">>),
          "module-loopback", <<"source=v2.monitor", "sink=v2-mic", "latency_msec=1">>),
        "module-loopback", <<"source=v2.monitor", "sink=hw">>) }

Init ==
    /\ server \in InitialServers
    /\ dryRun \in BOOLEAN
    /\ exec = RealExec
    /\ faults = 0
    /\ call = NoCall
    /\ run = [p \in {1} |-> NoRun]
    /\ ops = 0
    /\ hist = NoHist

Procs == DOMAIN run

Next ==
    \/ \E p \in Procs : Start(p)
    \/ \E p \in Procs : BaseCheck(p)
    \/ \E p \in Procs : BaseCreate(p)
    \/ \E p \in Procs : MicCheck(p)
    \/ \E p \in Procs : MicCreate(p)
    \/ \E p \in Procs : Monitor(p)
    \/ \E p \in Procs : LoopFind(p)
    \/ \E p \in Procs : LoopCreate(p)
    \/ \E p \in Procs : RoutePlayback(p)
    \/ \E p \in Procs : RouteOther(p)
    \/ \E p \in Procs : Move(p)
    \/ \E p \in Procs : ResetMonitor(p)
    \/ \E p \in Procs : ResetLoopFind(p)
    \/ \E p \in Procs : ResetMicFind(p)
    \/ \E p \in Procs : ResetBaseFind(p)
    \/ \E p \in Procs : ResetUnload(p)

Spec == Init /\ [][Next]_vars

-----------------------------------------------------------------------------
(* The client operations called one at a time on a server in any listed    *)
(* state, as the package's tests and main's status command call them.      *)

ListedSinkNames == {"v", "v-mic", "v2"}

ListedSinks ==
    LET pick == (ListedSinkNames \X {TRUE}) \cup {<<"v", FALSE>>}
    IN  UNION {{[k \in 1..n |->
                    [idx |-> k, name |-> f[k][1], owner |-> 0,
                     mon |-> IF f[k][2] THEN f[k][1] \o ".monitor" ELSE ""]]
                : f \in [1..n -> pick]} : n \in 0..MaxListed}

ListedModuleKinds ==
    { <<"module-loopback", <<"source=v.monitor", "sink=v-mic", "latency_msec=1">> >>,
      <<"module-loopback", <<"source=v.monitor", "sink=hw">> >>,
      <<"module-loopback", <<"source=hw.monitor", "sink=v-mic">> >>,
      <<"module-null-sink", <<"sink_name=v-mic">> >>,
      <<"module-null-sink", <<"sink_name=v">> >> }

ListedModules ==
    UNION {{[k \in 1..n |->
                [id |-> FirstModuleId + k - 1, name |-> f[k][1], argv |-> f[k][2]]]
            : f \in [1..n -> ListedModuleKinds]} : n \in 0..MaxListed}

ListedStreams == << [id |-> 5, app |-> "Firefox", sink |-> "hw"] >>

QuerySinkNames == {"v", "v-mic"}
QuerySubstrs == {"source=v.monitor", "sink_name=v", "sink=v-mic"}
QuerySources == {"source=v.monitor", "source="}
QueryTargets == {"sink=v-mic", "sink=hw"}
QueryModuleIds == {FirstModuleId, FirstModuleId + MaxListed}
QueryCommands == { <<"list", "short", "sinks">>, <<"list", "sinks">>,
                   <<"unload-module", Itoa(FirstModuleId)>>,
                   <<"some", "cmd">>, <<>> }

\* The fakeExec values of the package's tests: "OK" (pactl_test.go:33), an
\* error with output (pactl_test.go:51), two sink-input blocks
\* (pactl_test.go:60-63).
FakeExecs ==
    { [kind |-> "fake", out |-> <<"OK">>, ok |-> TRUE],
      [kind |-> "fake", out |-> <<"err out">>, ok |-> FALSE],
      [kind |-> "fake", ok |-> TRUE,
       out |-> <<"Sink Input #0", "\tapplication.name = \"Firefox\"",
                 "Sink Input #1", "\tapplication.name = \"Chrome\"">>] }

\* Does a command the client issues start a process?
Launches == ~dryRun /\ exec.kind = "real"

InitClient ==
    /\ \E ss \in ListedSinks, ms \in ListedModules :
          /\ ss = <<>> \/ ms = <<>>
          /\ server = [sinks |-> ss, modules |-> ms, streams |-> ListedStreams,
                       nextId |-> FirstModuleId + Len(ms)]
          /\ exec \in IF ss = <<>> /\ ms = <<>> THEN {RealExec} \cup FakeExecs
                       ELSE {RealExec}
    /\ dryRun \in BOOLEAN
    /\ faults = 0
    /\ call = NoCall
    /\ run = [p \in {1} |-> NoRun]
    /\ ops = 0
    /\ hist = NoHist

Called(op, args, f, res) ==
    \E r \in {res} :
    /\ call' = [op |-> op, args |-> args, fault |-> f,
                cmd |-> CmdOf(r.cmd), res |-> Results(r)]
    /\ server' = r.cmd.srv
    /\ faults' = IF f THEN faults + 1 ELSE faults
    /\ UNCHANGED <<dryRun, exec, run, ops, hist>>

CallPactl ==
    \E args \in QueryCommands, f \in Faults(Launches) :
        LET r == Pactl(dryRun, server, f, args)
        IN  Called("Pactl", args, f, [cmd |-> r, err |-> r.err, out |-> r.out])

CallSinkExists ==
    \E name \in QuerySinkNames, f \in Faults(Launches) :
        Called("SinkExists", <<name>>, f, SinkExists(dryRun, server, f, name))

CallGetSinkMonitor ==
    \E name \in QuerySinkNames, f \in Faults(Launches) :
        Called("GetSinkMonitor", <<name>>, f, GetSinkMonitor(dryRun, server, f, name))

CallListSinkInputs ==
    \E f \in Faults(TRUE) :
        Called("ListSinkInputs", <<>>, f, ListSinkInputs(dryRun, server, f))

CallMoveSinkInput ==
    \E id \in {ListedStreams[1].id, ListedStreams[1].id + 1}, name \in {"v", "hw"},
       f \in Faults(Launches) :
        Called("MoveSinkInput", <<Itoa(id), name>>, f,
               MoveSinkInput(dryRun, server, f, id, name))

CallFindModules ==
    \E sub \in QuerySubstrs, f \in Faults(Launches) :
        Called("FindModules", <<sub>>, f, FindModules(dryRun, server, f, sub))

CallFindModulesMatching ==
    \E s1 \in QuerySources, s2 \in QueryTargets, f \in Faults(Launches) :
        Called("FindModulesMatching", <<s1, s2>>, f,
               FindModulesMatching(dryRun, server, f, <<s1, s2>>))

CallUnloadModule ==
    \E id \in QueryModuleIds, f \in Faults(Launches) :
        Called("UnloadModule", <<Itoa(id)>>, f, UnloadModule(dryRun, server, f, id))

NextClient ==
    \/ CallPactl
    \/ CallSinkExists
    \/ CallGetSinkMonitor
    \/ CallListSinkInputs
    \/ CallMoveSinkInput
    \/ CallFindModules
    \/ CallFindModulesMatching
    \/ CallUnloadModule

SpecClient == InitClient /\ [][NextClient]_vars

-----------------------------------------------------------------------------
(* The parse of ListSinkInputs (profiles.go:139-166) applied to a response *)
(* of any shape.  A line is given with what it is: hdr, a "Sink Input #"   *)
(* header (id: its number, 0 if it shows none); named, an application.name *)
(* property (name: its value).                                             *)

\* Lines of one response.
MaxLines == 3

ResponseLines ==
    { [text |-> "Sink Input #5", hdr |-> TRUE, id |-> 5, named |-> FALSE, name |-> ""],
      [text |-> "Sink Input #x", hdr |-> TRUE, id |-> 0, named |-> FALSE, name |-> ""],
      [text |-> "\t\tapplication.name = \"Firefox\"", hdr |-> FALSE, id |-> 0,
       named |-> TRUE, name |-> "Firefox"],
      [text |-> "\t\tapplication.name = \"a=b\"", hdr |-> FALSE, id |-> 0,
       named |-> TRUE, name |-> "a=b"],
      [text |-> "\t\tapplication.name", hdr |-> FALSE, id |-> 0,
       named |-> FALSE, name |-> ""],
      [text |-> "\tDriver: PipeWire", hdr |-> FALSE, id |-> 0,
       named |-> FALSE, name |-> ""] }

Responses == UNION {[1..n -> ResponseLines] : n \in 0..MaxLines}

\* pactl has printed a response: call.args keeps what its lines are.
InitParse ==
    /\ \E resp \in Responses :
          call = [NoCall EXCEPT !.op = "output", !.args = resp,
                      !.cmd = [@ EXCEPT !.out = [k \in 1..Len(resp) |-> resp[k].text],
                                        !.mode = "direct"]]
    /\ server = InitialServer
    /\ dryRun = FALSE
    /\ exec = RealExec
    /\ faults = 0
    /\ run = [p \in {1} |-> NoRun]
    /\ ops = 0
    /\ hist = NoHist

\* profiles.go:139-166: the response is parsed into records.
ParseSinkInputs ==
    /\ call.op = "output"
    /\ call' = [call EXCEPT !.op = "ParseSinkInputs",
                    !.res = [err |-> "",
                             inputs |-> ScanSinkInputs(call.cmd.out, 1, <<>>, <<>>)]]
    /\ UNCHANGED <<server, dryRun, exec, faults, run, ops, hist>>

NextParse == ParseSinkInputs

SpecParse == InitParse /\ [][NextParse]_vars

-----------------------------------------------------------------------------
(* Properties *)

SeqSet(seq) == {seq[k] : k \in 1..Len(seq)}

LastCmd(me) == me.cmds[Len(me.cmds)]

\* The previous two invocations were op1 then op2 for the same profile.
Consecutive(kinds1, kinds2) ==
    /\ hist.prevOp \in kinds1
    /\ hist.op \in kinds2
    /\ hist.prof = hist.prevProf

\* C1: a Deploy (or setup) of a profile right after a Deploy (setup) of the
\* same profile, every command of both succeeding, leaves the sinks and
\* the modules as the first left them and executes no load-module.
C1_DeployIdempotent ==
    (/\ Consecutive(DeployKinds, DeployKinds)
     /\ hist.op = hist.prevOp
     /\ hist.clean /\ hist.prevClean)
    => /\ hist.after.sinks = hist.prevAfter.sinks
       /\ hist.after.modules = hist.prevAfter.modules
       /\ hist.loads = 0

\* Deploy ran twice for one profile, and the first created the two sinks
\* and the loopback.
C1_Witness ==
    /\ Consecutive({"Deploy"}, {"Deploy"})
    /\ hist.clean /\ hist.prevClean
    /\ hist.prevLoads = 3
    /\ Len(hist.after.modules) = 3

\* Is m one of the three modules Deploy makes for prof?  (A loopback into
\* the mic sink counts whatever its source.)
OwnModule(prof, m) ==
    \/ /\ m.name = "module-null-sink"
       /\ ArgValue(m.argv, "sink_name") \in {prof.VirtualSink, MicSinkName(prof)}
    \/ /\ m.name = "module-loopback"
       /\ ArgValue(m.argv, "sink") = MicSinkName(prof)

\* C2: Reset unloads no module but the profile's own three.
C2_TargetedTeardown ==
    \A p \in Procs :
        run[p].op \in ResetKinds =>
            \A c \in SeqSet(run[p].cmds) :
                (IsUnload(c) /\ Executed(c) /\ c.err = "")
                    => c.mod # <<>> /\ OwnModule(run[p].prof, c.mod[1])

\* The three pattern queries of a profile all report NotFound on srv.
PatternsNotFound(srv, sinkName, monitors) ==
    /\ FindModules(FALSE, srv, FALSE, "sink_name=" \o sinkName).err = "NotFound"
    /\ FindModules(FALSE, srv, FALSE, "sink_name=" \o sinkName \o "-mic").err = "NotFound"
    /\ \A m \in monitors :
          FindModulesMatching(FALSE, srv, FALSE,
              <<"source=" \o m, "sink=" \o sinkName \o "-mic">>).err = "NotFound"

\* C3 as stated: after Deploy then a Reset whose unloads all succeeded (both
\* run for real), the three pattern queries report NotFound.
C3_ResetFixedPoint_Original ==
    (~dryRun /\ Consecutive(DeployKinds, ResetKinds) /\ hist.unloadsOk)
    => PatternsNotFound(hist.after, hist.prof, {hist.mon, hist.prevMon} \ {""})

\* C3 amended: after Deploy then a Reset in which every command (each
\* lookup and each unload) succeeded, both run for real, the three pattern
\* queries report NotFound.
C3_ResetFixedPoint ==
    (~dryRun /\ Consecutive(DeployKinds, ResetKinds) /\ hist.clean)
    => PatternsNotFound(hist.after, hist.prof, {hist.mon, hist.prevMon} \ {""})

\* A Deploy that created its three modules was followed by a Reset of the
\* same profile that unloaded them.
C3_Witness ==
    /\ ~dryRun
    /\ Consecutive({"Deploy"}, {"Reset"})
    /\ hist.clean /\ hist.prevClean
    /\ hist.prevLoads = 3
    /\ hist.prevMon # ""
    /\ Len(hist.prevAfter.modules) = 3
    /\ hist.after.modules = <<>>

\* The monitor sources of the sinks named exactly sinkName.
ExactMonitors(srv, sinkName) ==
    {s.mon : s \in {t \in SeqSet(srv.sinks) : t.name = sinkName}}

\* C4: whenever Deploy has just loaded a module-loopback, its source is the
\* monitor of the sink named exactly VirtualSink and its sink VirtualSink-mic.
C4_LoopbackNaming ==
    \A p \in Procs :
        (/\ run[p].op \in DeployKinds
         /\ run[p].cmds # <<>>
         /\ IsLoad(LastCmd(run[p]))
         /\ LastCmd(run[p]).args[2] = "module-loopback"
         /\ Executed(LastCmd(run[p])))
        => /\ \E m \in ExactMonitors(server, run[p].prof.VirtualSink) :
                 LastCmd(run[p]).args[3] = "source=" \o m
           /\ LastCmd(run[p]).args[4] = "sink=" \o MicSinkName(run[p].prof)

HasPlayback(prof) ==
    \E k \in 1..Len(prof.Applications) : prof.Applications[k].Role = "playback"

\* C5: a Deploy that has returned has attempted the stream routing of its
\* playback applications, whatever failed before.
C5_BestEffortDeploy ==
    \A p \in Procs :
        (run[p].op \in DeployKinds /\ run[p].pc = "done" /\ HasPlayback(run[p].prof))
        => \E c \in SeqSet(run[p].cmds) : c.args = <<"list", "sink-inputs">>

\* C6: with DryRun set no command is run: every command issued, by a client
\* operation or inside Deploy / Reset, is echoed.
C6_DryRunIsolation ==
    dryRun =>
        /\ call.cmd.mode \in {"none", "echo"}
        /\ \A p \in Procs : \A c \in SeqSet(run[p].cmds) : c.mode = "echo"

\* C7: every error a step of Deploy or Reset got was returned or printed.
C7_NoErrorDiscarded ==
    \A p \in Procs :
        \A e \in SeqSet(run[p].errs) : e.how \in {"returned", "printed"}

\* The ids of the server's modules whose argument string contains every one
\* of subs, in listing order.
ModulesContaining(srv, subs) ==
    LET Has(m) == \A s \in subs : Contains(Join(m.argv, " "), s)
        hit == SelectSeq(srv.modules, Has)
    IN  [k \in 1..Len(hit) |-> hit[k].id]

\* C8: FindModulesMatching([s1, s2]) returns the ids of exactly the modules
\* whose argument string contains both, and NotFound when there is none.
C8_AndMatch ==
    (call.op = "FindModulesMatching" /\ call.cmd.mode = "exec" /\ call.cmd.err = "")
    => LET want == ModulesContaining(server, {call.args[1], call.args[2]})
       IN  IF want = <<>>
           THEN call.res.err = "NotFound" /\ call.res.ids = <<>>
           ELSE call.res.err = "" /\ call.res.ids = want

\* A module holding only the first substring was listed and left out.
C8_Witness ==
    /\ call.op = "FindModulesMatching" /\ call.cmd.mode = "exec" /\ call.cmd.err = ""
    /\ Len(server.modules) = 2
    /\ Len(ModulesContaining(server, {call.args[1]})) = 2
    /\ Len(call.res.ids) = 1

\* C9: GetSinkMonitor(name) returns the monitor of the sink named exactly
\* name, and NotFound when no sink of that name shows a monitor.
C9_GetSinkMonitorExact ==
    (call.op = "GetSinkMonitor" /\ call.cmd.mode = "exec" /\ call.cmd.err = "")
    => LET mons == ExactMonitors(server, call.args[1]) \ {""}
       IN  IF mons = {}
           THEN call.res.err = "NotFound"
           ELSE call.res.err = "" /\ call.res.mon \in mons

\* C10: SinkExists(name) is true exactly if a sink is named name; it gives
\* an error exactly if the listing command failed.
C10_SinkExistsExact ==
    call.op = "SinkExists"
    => /\ (call.res.err # "") <=> (call.cmd.err # "")
       /\ call.res.err # "" => ~call.res.exists
       /\ call.cmd.mode = "echo" => ~call.res.exists
       /\ (call.cmd.mode = "exec" /\ call.cmd.err = "")
              => (call.res.exists <=>
                    \E s \in SeqSet(server.sinks) : s.name = call.args[1])

\* Only sinks with longer names that start with the name were listed, and
\* the answer was false without an error.
C10_Witness ==
    /\ call.op = "SinkExists" /\ call.cmd.mode = "exec" /\ call.cmd.err = ""
    /\ call.args = <<"v">>
    /\ server.sinks # <<>>
    /\ \A s \in SeqSet(server.sinks) : s.name # "v" /\ HasPrefix(s.name, "v")
    /\ ~call.res.exists /\ call.res.err = ""

\* The headers of a response, and the lines of the block a header opens.
HeadersOf(resp) == {k \in 1..Len(resp) : resp[k].hdr}

BlockOf(resp, h) ==
    {k \in (h + 1)..Len(resp) : \A j \in (h + 1)..k : ~resp[j].hdr}

\* C11: a response with N "Sink Input #" headers is parsed into N records,
\* in header order, each with the application.name of its block, or with
\* an empty name when the block shows none; no line of any shape drops a
\* record.
C11_ListingParseCount ==
    call.op = "ParseSinkInputs"
    => LET resp == call.args
           got == call.res.inputs
       IN  /\ call.res.err = ""
           /\ Len(got) = Cardinality(HeadersOf(resp))
           /\ \A h \in HeadersOf(resp) :
                 LET j == Cardinality({k \in HeadersOf(resp) : k <= h})
                     names == {resp[k].name : k \in {i \in BlockOf(resp, h) : resp[i].named}}
                 IN  /\ resp[h].id # 0 => got[j].ID = resp[h].id
                     /\ IF names = {} THEN got[j].ApplicationName = ""
                        ELSE got[j].ApplicationName \in names

\* Two headers, the first with a number that is none and a block without a
\* name, the second with a name that holds an "=": two records came out.
C11_Witness ==
    /\ call.op = "ParseSinkInputs"
    /\ Len(call.args) = 3
    /\ call.args[1].hdr /\ call.args[1].id = 0
    /\ call.args[2].hdr /\ call.args[2].id = 5
    /\ call.args[3].name = "a=b"
    /\ Len(call.res.inputs) = 2
    /\ call.res.inputs[1].ApplicationName = ""
    /\ call.res.inputs[2] = [ID |-> 5, ApplicationName |-> "a=b"]


\* C12 -- Single command gate: in real mode every client operation,
\* ListSinkInputs included, obtains its response by calling the client's
\* Executor with the command name "pactl"; so with an Executor that answers
\* without error the result of ListSinkInputs is the parse of that Executor's
\* output and no error, whatever the server holds.
C12_SingleCommandGate ==
    (call.op # "none" /\ ~dryRun) =>
        /\ call.cmd.mode = "exec"
        /\ call.cmd.argv = <<"pactl">> \o call.cmd.args
        /\ (call.op = "ListSinkInputs" /\ exec.kind = "fake" /\ exec.ok) =>
              /\ call.res.err = ""
              /\ call.res.inputs = ScanSinkInputs(exec.out, 1, <<>>, <<>>)


IsListing(c) == c.args = <<"list", "sink-inputs">>

IsMove(c) == Len(c.args) = 3 /\ c.args[1] = "move-sink-input"

PlaybackApps(prof) ==
    LET Plays(a) == a.Role = "playback" IN SelectSeq(prof.Applications, Plays)

\* The streams of the server whose application name contains the declared
\* name, whatever the case of the letters.
StreamsOf(srv, appName) ==
    LET Hit(s) == Contains(ToLower(s.app), ToLower(appName))
    IN  SelectSeq(srv.streams, Hit)

\* C13 -- Stream routing: in a Deploy (or setup) that has come to step 4, the
\* streams are listed once for each application with Role playback, and each
\* listing that succeeds is followed by one move-sink-input to VirtualSink for
\* every stream whose application name contains the declared name as a
\* case-insensitive substring, in listing order, and by no other command;
\* a listing with no matching stream is followed by no move, and the
\* invocation does not fail.
C13_StreamRouting ==
    \A p \in Procs :
        LET me == run[p]
            lst == {k \in 1..Len(me.cmds) : IsListing(me.cmds[k])}
        IN  (me.op \in DeployKinds /\ me.pc = "done" /\ lst # {}) =>
              /\ me.ret = ""
              /\ Cardinality(lst) = Len(PlaybackApps(me.prof))
              /\ \A k \in lst :
                    LET app == PlaybackApps(me.prof)[Cardinality({j \in lst : j <= k})]
                        end == SetMin({j \in lst \cup {Len(me.cmds) + 1} : j > k})
                        moves == SubSeq(me.cmds, k + 1, end - 1)
                        hits == StreamsOf(server, app.Name)
                    IN  IF me.cmds[k].err # "" THEN moves = <<>>
                        ELSE /\ Len(moves) = Len(hits)
                             /\ \A i \in 1..Len(hits) :
                                   moves[i].args = <<"move-sink-input", Itoa(hits[i].id),
                                                     me.prof.VirtualSink>>

\* A Deploy has moved the two browser streams, 5 and 7, and not stream 6.
C13_Witness ==
    \E p \in Procs :
        LET me == run[p]
            mv == {k \in 1..Len(me.cmds) : IsMove(me.cmds[k]) /\ me.cmds[k].err = ""}
        IN  /\ me.op \in DeployKinds /\ me.pc = "done" /\ ~dryRun
            /\ {me.cmds[k].args[2] : k \in mv} = {"5", "7"}
            /\ \A s \in SeqSet(server.streams) :
                  s.sink = me.prof.VirtualSink <=> s.id \in {5, 7}


-----------------------------------------------------------------------------
(* Deploy and setup as one function of the server: the mutating commands   *)
(* a real-mode invocation executes when no command fails, and the server   *)
(* they leave.                                                             *)

\* The inner loop of step 4 (manager.go:95-105, main.go:151-161)
RECURSIVE RealMoves(_, _, _)
RealMoves(inputs, srv, sinkName) ==
    IF inputs = <<>> THEN [cmds |-> <<>>, srv |-> srv]
    ELSE LET r == MoveSinkInput(FALSE, srv, FALSE, Head(inputs).ID, sinkName)
             rest == RealMoves(Tail(inputs), r.cmd.srv, sinkName)
         IN  [cmds |-> <<r.cmd.args>> \o rest.cmds, srv |-> rest.srv]

\* The loop of step 4 over p.Applications (manager.go:85-115, main.go:141-172)
RECURSIVE RealRoutes(_, _, _, _)
RealRoutes(apps, k, srv, sinkName) ==
    IF k > Len(apps) THEN [cmds |-> <<>>, srv |-> srv]
    ELSE IF apps[k].Role # "playback" THEN RealRoutes(apps, k + 1, srv, sinkName)
    ELSE LET r == ListSinkInputs(FALSE, srv, FALSE)
             Sel(i) == AppMatches(i, apps[k].Name)
             mv == RealMoves(SelectSeq(r.inputs, Sel), r.cmd.srv, sinkName)
             rest == RealRoutes(apps, k + 1, mv.srv, sinkName)
         IN  [cmds |-> mv.cmds \o rest.cmds, srv |-> rest.srv]

\* Steps 1 to 4 (manager.go:30-118, main.go:86-172)
RealDeploy(kind, prof, srv) ==
    LET me == NewRun(kind, prof)
        baseArgs == <<"load-module", "module-null-sink",
                      "sink_name=" \o prof.VirtualSink>>
        base == SinkExists(FALSE, srv, FALSE, prof.VirtualSink)
        c1 == IF base.exists THEN <<>> ELSE <<baseArgs>>
        s1 == IF base.exists THEN srv ELSE Pactl(FALSE, srv, FALSE, baseArgs).srv
        mic == SinkExists(FALSE, s1, FALSE, MicSinkName(prof))
        c2 == IF mic.exists THEN <<>> ELSE <<MicCreateArgs(me)>>
        s2 == IF mic.exists THEN s1
              ELSE Pactl(FALSE, s1, FALSE, MicCreateArgs(me)).srv
        m == GetSinkMonitor(FALSE, s2, FALSE, prof.VirtualSink)
        look == IF kind = "Deploy"
                THEN FindModulesMatching(FALSE, s2, FALSE,
                         <<"source=" \o m.mon, "sink=" \o MicSinkName(prof)>>)
                ELSE FindModules(FALSE, s2, FALSE, "source=" \o m.mon)
        loopArgs == LoopCreateArgs([me EXCEPT !.mon = m.mon])
        makes == m.err = "" /\ look.err # ""
        c3 == IF makes THEN <<loopArgs>> ELSE <<>>
        s3 == IF makes THEN Pactl(FALSE, s2, FALSE, loopArgs).srv ELSE s2
        route == IF m.err # "" /\ kind = "Deploy" THEN [cmds |-> <<>>, srv |-> s3]
                 ELSE RealRoutes(prof.Applications, 1, s3, prof.VirtualSink)
    IN  [cmds |-> c1 \o c2 \o c3 \o route.cmds, srv |-> route.srv]

\* The commands of an invocation that change the server.
Mutating(c) == IsLoad(c) \/ IsMove(c)

\* C14 -- Dry-run is a faithful preview: a Deploy or setup run with dry-run
\* enabled executes no load-module and no move-sink-input, and the ones it
\* echoes are, in order, exactly those the same invocation executes in real
\* mode on the same server.
C14_DryRunFaithfulPreview ==
    \A p \in Procs :
        LET me == run[p]
            Echoed(c) == Mutating(c) /\ c.mode = "echo"
            Ran(c) == Mutating(c) /\ c.mode # "echo"
            echo == SelectSeq(me.cmds, Echoed)
        IN  (dryRun /\ me.op \in DeployKinds /\ me.pc = "done") =>
              /\ SelectSeq(me.cmds, Ran) = <<>>
              /\ [k \in 1..Len(echo) |-> echo[k].args]
                     = RealDeploy(me.op, me.prof, server).cmds


\* A loopback whose source is the monitor of the sink it plays into.
FeedsItself(srv, argv) ==
    \E k \in 1..Len(srv.sinks) :
        /\ srv.sinks[k].name = ArgValue(argv, "sink")
        /\ srv.sinks[k].mon = ArgValue(argv, "source")

\* C15 -- No feedback loop: Deploy never loads a loopback whose source is the
\* monitor of the sink it feeds (source = monitor of VirtualSink-mic with
\* sink = VirtualSink-mic), and after any sequence of Deploy and Reset no
\* loopback module on the server routes a sink's monitor back into that sink.
C15_NoFeedbackLoop ==
    /\ \A m \in SeqSet(server.modules) :
          m.name = "module-loopback" => ~FeedsItself(server, m.argv)
    /\ \A p \in Procs : \A c \in SeqSet(run[p].cmds) :
          (IsLoad(c) /\ c.args[2] = "module-loopback") =>
              ArgValue(SubSeq(c.args, 3, Len(c.args)), "source")
                  # MicSinkName(run[p].prof) \o ".monitor"


\* The words of a command line, one space between each two.
RECURSIVE Spaced(_)
Spaced(words) ==
    IF words = <<>> THEN ""
    ELSE Head(words) \o (IF Len(words) > 1 THEN " " ELSE "") \o Spaced(Tail(words))

\* C16 -- Dry-run echo: with DryRun set, Pactl(args...) returns no error and
\* exactly the text "dry-run: pactl " followed by the arguments with one
\* space between each two, for every argument list, and runs nothing.
C16_DryRunEcho ==
    (call.op = "Pactl" /\ dryRun) =>
        /\ call.res.err = ""
        /\ call.res.out = <<"dry-run: pactl " \o Spaced(call.args)>>
        /\ call.cmd.mode = "echo"

\* The dry-run call of the package's test, and of a command that would
\* change the server.
C16_Witness ==
    /\ call.op = "Pactl" /\ dryRun
    /\ call.args \in {<<"list", "sinks">>, <<"unload-module", Itoa(FirstModuleId)>>}
    /\ call.res.out \in {<<"dry-run: pactl list sinks">>,
                         <<"dry-run: pactl unload-module " \o Itoa(FirstModuleId)>>}


\* C17 -- Real-mode execute: with DryRun unset, Pactl(args...) calls the
\* Executor with the command name "pactl" and the arguments unchanged in
\* number and order; when the Executor succeeds the call returns its output
\* unchanged and no error, when it reports an error the call returns an
\* error (ExecutionFailure).
C17_RealModeExecute ==
    (call.op = "Pactl" /\ ~dryRun) =>
        /\ call.cmd.mode = "exec"
        /\ Head(call.cmd.argv) = "pactl"
        /\ Tail(call.cmd.argv) = call.args
        /\ exec.kind = "fake" =>
              /\ call.res.out = exec.out
              /\ call.res.err = IF exec.ok THEN "" ELSE "ExecutionFailure"
        /\ (exec.kind = "real" /\ call.fault) => call.res.err = "ExecutionFailure"

\* The two calls of the package's tests: the Executor answers "OK" to
\* list short sinks, and fails on some cmd.
C17_Witness ==
    /\ call.op = "Pactl" /\ ~dryRun /\ exec.kind = "fake"
    /\ \/ exec.ok /\ call.args = <<"list", "short", "sinks">>
             /\ call.res.out = <<"OK">> /\ call.res.err = ""
       \/ ~exec.ok /\ call.args = <<"some", "cmd">> /\ call.res.err # ""


\* The place of a step in the order of Deploy, and in that of Reset.
StepOrder ==
    [base_check |-> 1, base_create |-> 2, mic_check |-> 3, mic_create |-> 4,
     monitor |-> 5, loop_find |-> 6, loop_create |-> 7, route |-> 8, move |-> 8,
     r_monitor |-> 1, r_loop_find |-> 2, r_loop_unload |-> 3,
     r_mic_find |-> 4, r_mic_unload |-> 5, r_base_find |-> 6, r_base_unload |-> 7]

\* The command a step issues, for the profile prof.
StepCommand(c, prof) ==
    LET loads == IsLoad(c) /\ c.args[2] = "module-null-sink"
    IN  CASE c.step \in {"base_check", "mic_check"} -> c.args = <<"list", "short", "sinks">>
          [] c.step = "base_create" -> loads /\ c.args[3] = "sink_name=" \o prof.VirtualSink
          [] c.step = "mic_create" ->
                 loads /\ c.args[3] = "sink_name=" \o prof.VirtualSink \o "-mic"
          [] c.step \in {"monitor", "r_monitor"} -> c.args = <<"list", "sinks">>
          [] c.step \in {"loop_find", "r_loop_find", "r_mic_find", "r_base_find"} ->
                 c.args = <<"list", "short", "modules">>
          [] c.step = "loop_create" -> IsLoad(c) /\ c.args[2] = "module-loopback"
          [] c.step = "route" -> IsListing(c)
          [] c.step = "move" -> IsMove(c)
          [] OTHER -> IsUnload(c)

\* C18 -- Step ordering: the commands of one Deploy are issued in the order
\* base-sink check and create, mic-sink check and create, monitor lookup,
\* loopback lookup and create, stream listings and moves; those of one Reset
\* in the order loopback lookup and unloads, mic-sink lookup and unloads,
\* base-sink lookup and unloads.  No command of a later step comes before a
\* command of an earlier one, and only listings and moves (Deploy) and unloads
\* (Reset) are issued more than once in their step.
C18_StepOrdering ==
    \A p \in Procs :
        LET cs == run[p].cmds
            Repeats(c) == c.step \in {"route", "move", "r_loop_unload",
                                      "r_mic_unload", "r_base_unload"}
        IN  /\ \A k \in 1..Len(cs) :
                  /\ StepCommand(cs[k], run[p].prof)
                  /\ (cs[k].step \in {"base_check", "base_create", "mic_check",
                                      "mic_create", "monitor", "loop_find",
                                      "loop_create", "route", "move"})
                         <=> run[p].op \in DeployKinds
            /\ \A j, k \in 1..Len(cs) :
                  j < k => /\ StepOrder[cs[j].step] <= StepOrder[cs[k].step]
                           /\ StepOrder[cs[j].step] = StepOrder[cs[k].step]
                                  => Repeats(cs[k])

\* A Deploy that issued all nine kinds of command in a row, and a Reset that
\* unloaded a loopback, then a mic sink's module, then a base sink's.
C18_Witness ==
    \E p \in Procs :
        LET steps == [k \in 1..Len(run[p].cmds) |-> run[p].cmds[k].step]
        IN  \/ steps = <<"base_check", "base_create", "mic_check", "mic_create",
                         "monitor", "loop_find", "loop_create", "route", "move", "move">>
            \/ /\ ~dryRun
               /\ {"r_loop_unload", "r_mic_unload", "r_base_unload"} \subseteq SeqSet(steps)


\* The loaded modules that are the loopback of prof: their argument string
\* contains both the monitor of the sink named VirtualSink as source and
\* VirtualSink-mic as sink.
LoopbacksOf(srv, prof) ==
    UNION { SeqSet(ModulesContaining(srv, {"source=" \o mon,
                                           "sink=" \o prof.VirtualSink \o "-mic"}))
            : mon \in ExactMonitors(srv, prof.VirtualSink) }

\* C19 -- Loopback create-or-skip: when step 3 of Deploy or setup has looked
\* the loopback up, it goes on to create it if and only if no loaded module's
\* argument string contains both the monitor source of VirtualSink and
\* VirtualSink-mic; a module that contains only one of the two does not make
\* it skip the creation.
C19_LoopbackCreateOrSkip ==
    \A p \in Procs :
        (/\ run[p].op \in DeployKinds
         /\ run[p].cmds # <<>>
         /\ LastCmd(run[p]).step = "loop_find"
         /\ ExactMonitors(server, run[p].prof.VirtualSink) # {})
            => (run[p].pc = "loop_create" <=> LoopbacksOf(server, run[p].prof) = {})


\* C20 -- Reset with unresolved monitor: in a Reset whose GetSinkMonitor
\* failed, no loopback lookup is made and no loopback module is unloaded, and
\* the mic-sink and base-sink lookups are still made before it returns.
C20_ResetUnresolvedMonitor ==
    \A p \in Procs :
        LET me == run[p]
            steps == {me.cmds[k].step : k \in 1..Len(me.cmds)}
        IN  (me.op \in ResetKinds /\ \E e \in SeqSet(me.errs) : e.step = "r_monitor") =>
              /\ steps \cap {"r_loop_find", "r_loop_unload"} = {}
              /\ me.pc = "done" => {"r_mic_find", "r_base_find"} \subseteq steps


-----------------------------------------------------------------------------
(* Reset on its own: invocations of Reset and of the reset command on a    *)
(* server that holds something to tear down.  An invocation that has       *)
(* started runs on: each of its commands returns and the next is issued.   *)

\* The server a Deploy of the first profile leaves: its two sinks, its
\* loopback, and the browser's streams on the virtual sink.
DeployedServer ==
    ServerMoveSinkInput(
      ServerMoveSinkInput(
        ServerLoadModule(
          ServerLoadModule(
            ServerLoadModule(InitialServer, "module-null-sink", <<"sink_name=v">>),
            "module-null-sink",
            SubSeq(MicCreateArgs(NewRun("Deploy", CHOOSE q \in Profiles : q.Name = "p1")),
                   3, 4)),
          "module-loopback", <<"source=v.monitor", "sink=v-mic", "latency_msec=1">>),
        5, "v"),
      7, "v")

\* The servers a Reset may find: those of InitialServers, and the one a
\* Deploy of the first profile leaves.
DeployedServers == InitialServers \cup {DeployedServer}

InitReset ==
    /\ exec = RealExec
    /\ dryRun \in BOOLEAN
    /\ server \in DeployedServers
    /\ faults = 0
    /\ call = NoCall
    /\ run = [p \in {1} |-> NoRun]
    /\ ops = 0
    /\ hist = NoHist

\* A caller starts Reset or the reset command for a profile.
StartReset(p) ==
    /\ run[p].pc \in {"idle", "done"}
    /\ ops < MaxOps
    /\ \E kind \in ResetKinds, prof \in Profiles :
          run' = [run EXCEPT ![p] = NewRun(kind, prof)]
    /\ ops' = ops + 1
    /\ UNCHANGED <<server, dryRun, exec, faults, call, hist>>

\* The next command of a Reset that is under way.
ResetStep(p) ==
    \/ ResetMonitor(p)
    \/ ResetLoopFind(p)
    \/ ResetMicFind(p)
    \/ ResetBaseFind(p)
    \/ ResetUnload(p)

NextReset ==
    \/ \E p \in Procs : StartReset(p)
    \/ \E p \in Procs : ResetStep(p)

\* The callers there are (the domain of run).
Callers == {1}

\* An invocation is under way.
Running == \E p \in Callers : run[p].pc \notin {"idle", "done"}

\* Weak fairness of the steps of a Reset, WF_vars(\E p : ResetStep(p)),
\* written out: a step is enabled exactly while an invocation is under way
\* (every command returns, with or without an error), and the steps taken
\* then are steps of that invocation.
ResetRunsOn == []<>(~Running) \/ []<><<Running>>_vars

SpecReset == InitReset /\ [][NextReset]_vars /\ ResetRunsOn

UnloadSteps == {"r_loop_unload", "r_mic_unload", "r_base_unload"}

\* C21 -- Reset steps are independent: whatever the earlier steps gave
\* (nothing found, a failed query, a failed unload), every Reset that has
\* started comes to return, having made the mic-sink module lookup and the
\* base-sink module lookup; and while a step has ids left to unload, its
\* next command is the unload-module of the first of them, after which the
\* others are still to come.
C21_ResetStepsIndependent ==
    /\ \A p \in Callers :
          (run[p].op \in ResetKinds /\ run[p].pc # "done")
              ~> (/\ run[p].pc = "done"
                  /\ {"r_mic_find", "r_base_find"}
                        \subseteq {run[p].cmds[k].step : k \in 1..Len(run[p].cmds)})
    /\ [][\A p \in Callers :
            (run[p].pc \in UnloadSteps /\ run'[p] # run[p]) =>
               /\ run[p].ids # <<>>
               /\ Len(run'[p].cmds) = Len(run[p].cmds) + 1
               /\ LastCmd(run'[p]).args = <<"unload-module", Itoa(Head(run[p].ids))>>
               /\ LastCmd(run'[p]).step = run[p].pc
               /\ IF Len(run[p].ids) > 1
                  THEN run'[p].pc = run[p].pc /\ run'[p].ids = Tail(run[p].ids)
                  ELSE run'[p].pc \notin UnloadSteps]_vars

\* A Reset has returned after a failed query and a failed or missing
\* loopback step, with both later lookups made and a module unloaded.
C21_Witness ==
    \E p \in Procs :
        /\ run[p].op \in ResetKinds /\ run[p].pc = "done" /\ run[p].errs # <<>>
        /\ \E c \in SeqSet(run[p].cmds) : c.err = "ExecutionFailure"
        /\ \E c \in SeqSet(run[p].cmds) : c.step \in UnloadSteps /\ c.err = ""
        /\ {"r_mic_find", "r_base_find"}
              \subseteq {run[p].cmds[k].step : k \in 1..Len(run[p].cmds)}


\* C22 -- input_target has no effect on the server: the step of Deploy (or
\* setup) for a declared application with Role input_target issues no
\* command (no listing, no move, no load, no unload), leaves the server's
\* sinks, modules and stream placement as they are, and goes on to the next
\* application.
C22_InputTargetNoEffect ==
    [][\A p \in Callers :
          (/\ run[p].pc = "route"
           /\ run[p].prof.Applications[run[p].app].Role = "input_target"
           /\ run'[p] # run[p])
              => /\ server' = server
                 /\ run'[p].cmds = run[p].cmds
                 /\ run'[p].errs = run[p].errs
                 /\ run'[p].app = run[p].app + 1]_vars

\* A real Deploy has returned after the step for its input_target
\* application, the last one declared.
C22_Witness ==
    \E p \in Procs :
        LET apps == run[p].prof.Applications
        IN  /\ run[p].op \in DeployKinds /\ run[p].pc = "done" /\ ~dryRun
            /\ run[p].app = Len(apps) + 1
            /\ apps[Len(apps)].Role = "input_target"
            /\ run[p].ret = ""


\* C23 -- A failed query never triggers a create: in real mode every
\* load-module of Deploy (or setup), for the base sink, the mic sink or the
\* loopback, comes straight after the query of its step, and that query ran
\* without error; after a listing that failed nothing is created.
C23_FailedQueryNoCreate ==
    \A p \in Procs :
        LET cs == run[p].cmds
        IN  (run[p].op \in DeployKinds /\ ~dryRun) =>
                \A k \in 1..Len(cs) :
                    IsLoad(cs[k]) =>
                        /\ k > 1
                        /\ cs[k - 1].step \in {"base_check", "mic_check", "loop_find"}
                        /\ cs[k - 1].err = ""


\* C24 -- No retry inside Reset: within one Reset, unload-module is issued
\* at most once for any module id, also when an unload failed.
C24_NoRetryInReset ==
    \A p \in Procs :
        LET cs == run[p].cmds
        IN  run[p].op \in ResetKinds =>
                \A j, k \in 1..Len(cs) :
                    (j < k /\ IsUnload(cs[j]) /\ IsUnload(cs[k]))
                        => cs[j].args[2] # cs[k].args[2]


-----------------------------------------------------------------------------
(* Two callers: two processes run Manager.Deploy against the one server,   *)
(* their commands interleaved in any order.                                *)

InitConcurrent ==
    /\ server \in InitialServers
    /\ dryRun \in BOOLEAN
    /\ exec = RealExec
    /\ faults = 0
    /\ call = NoCall
    /\ run = [p \in {1, 2} |-> NoRun]
    /\ ops = 0
    /\ hist = NoHist

\* A caller starts Deploy for a profile.
StartDeploy(p) ==
    /\ run[p].pc = "idle"
    /\ ops < MaxOps
    /\ \E prof \in Profiles : run' = [run EXCEPT ![p] = NewRun("Deploy", prof)]
    /\ ops' = ops + 1
    /\ UNCHANGED <<server, dryRun, exec, faults, call, hist>>

\* The next command of a Deploy that is under way.
DeployStep(p) ==
    \/ BaseCheck(p)
    \/ BaseCreate(p)
    \/ MicCheck(p)
    \/ MicCreate(p)
    \/ Monitor(p)
    \/ LoopFind(p)
    \/ LoopCreate(p)
    \/ RoutePlayback(p)
    \/ RouteOther(p)
    \/ Move(p)

NextConcurrent ==
    \/ \E p \in Procs : StartDeploy(p)
    \/ \E p \in Procs : DeployStep(p)

SpecConcurrent == InitConcurrent /\ [][NextConcurrent]_vars

\* The null-sink modules of the server that make a sink of this name.
SinkModules(srv, sinkName) ==
    {m \in SeqSet(srv.modules) :
        m.name = "module-null-sink" /\ ArgValue(m.argv, "sink_name") = sinkName}

\* The loopback modules of the server from one source into one sink.
LoopbackModules(srv, source, sink) ==
    {m \in SeqSet(srv.modules) :
        /\ m.name = "module-loopback"
        /\ ArgValue(m.argv, "source") = source
        /\ ArgValue(m.argv, "sink") = sink}

\* C25 -- Concurrent Deploys: when two Deploy invocations for the same
\* profile have run interleaved against the same server and both have
\* returned, the server holds at most one null-sink module per sink name and
\* at most one loopback from VirtualSink's monitor to VirtualSink-mic.
C25_ConcurrentDeploys ==
    (/\ DOMAIN run = {1, 2}
     /\ \A p \in Procs : run[p].op = "Deploy" /\ run[p].pc = "done"
     /\ run[1].prof = run[2].prof)
        => LET prof == run[1].prof
               mic == MicSinkName(prof)
           IN  /\ Cardinality(SinkModules(server, prof.VirtualSink)) <= 1
               /\ Cardinality(SinkModules(server, mic)) <= 1
               /\ Cardinality(LoopbackModules(server, prof.VirtualSink \o ".monitor",
                                              mic)) <= 1


\* C26 -- Unload failures are isolated: when an unload-module of a Reset
\* step fails, the Reset does not return and drops none of the ids the step
\* still has: with ids left it stays in the step with exactly those, and
\* with none left it goes on to the lookup of the next step (after the
\* base-sink step, to its return without an error).
C26_UnloadFailuresIsolated ==
    [][\A p \in Callers :
          (/\ run[p].pc \in UnloadSteps
           /\ run'[p] # run[p]
           /\ LastCmd(run'[p]).err # "")
              => /\ run'[p].ret = ""
                 /\ IF Len(run[p].ids) > 1
                    THEN run'[p].pc = run[p].pc /\ run'[p].ids = Tail(run[p].ids)
                    ELSE run'[p].pc =
                           (CASE run[p].pc = "r_loop_unload" -> "r_mic_find"
                              [] run[p].pc = "r_mic_unload" -> "r_base_find"
                              [] OTHER -> "done")]_vars

\* A Reset has returned in which an unload failed and a later id of the
\* same step was unloaded all the same.
C26_Witness ==
    \E p \in Procs :
        LET cs == run[p].cmds
        IN  /\ run[p].op \in ResetKinds /\ run[p].pc = "done" /\ run[p].ret = ""
            /\ \E j, k \in 1..Len(cs) :
                  /\ j < k
                  /\ IsUnload(cs[j]) /\ cs[j].err = "ExecutionFailure"
                  /\ IsUnload(cs[k]) /\ cs[k].err = ""
                  /\ cs[j].step = cs[k].step
                  /\ cs[j].args # cs[k].args

====
